---- MODULE Spec2Model ----
(***************************************************************************)
(* A model of final/analyze_experiments.py: the main analysis pipeline     *)
(* (one pass over the configured experiments with its per-experiment        *)
(* try/except), the two-group comparison analyze_false_vs_true, the         *)
(* summary report, and the two labelling expressions (significance band     *)
(* and effect size).                                                        *)
(*                                                                         *)
(* Floating-point values are modelled as records [k, v]: k = "num" with an  *)
(* integer v in a stated unit, or k \in {"nan", "inf", "-inf"} (v = 0).     *)
(* Comparisons follow IEEE 754: every comparison with a NaN is false.       *)
(***************************************************************************)
EXTENDS Integers, Sequences, FiniteSets, TLC

VARIABLES
    \* ---- main pipeline (__main__) ----
    pc,            \* position of the script in the main block
    idx,           \* index in `experiments` of the experiment being processed
    aIdx,          \* index in exp['analyses'] of the analysis being dispatched
    df,            \* the table bound by load_experiment_data (NoTable: unbound)
    successful,    \* list of names, main line 357
    failed,        \* list of names, main line 358
    visited,       \* history: experiments whose loop body started, in order
    fileExists,    \* this iteration: what os.path.exists returned
    exc,           \* this iteration: the exception raised in the try block
    ran,           \* this iteration: an analysis function was called
    skipped,       \* this iteration: an analysis was passed over by the dispatch
    mIdx,          \* analyze_false_vs_true: index in `metrics` of the statistics loop
    metricsDone,   \* this iteration: metrics whose statistics were printed
    metricRaised,  \* this iteration: the metric whose statistics raised (0: none)
    summary,       \* what the final summary printed
    \* ---- analyze_false_vs_true on one table and one metric column ----
    table,         \* the loaded table: a sequence of rows [truth, value]
    cpc,           \* "dispatch", then "done"
    groups,        \* the row sets true_rumors and false_rumors
    stats,         \* what the statistics loop computed and printed
    \* ---- generate_summary_report ----
    rtable,        \* the table: column name -> sequence of values
    rpc,           \* "report", then "done"
    report,        \* what the report printed
    \* ---- the effect-size label (line 77) ----
    cohens_d,      \* Cohen's d, in hundredths
    effect,        \* the label printed ("": not yet)
    \* ---- the significance band (lines 72, 100-104) ----
    p_value,       \* the t-test's p-value, in units of 0.0001
    bpc,           \* "print", "draw", then "done"
    band,          \* the band printed after the t-test
    stars          \* the stars written on the figure ("none": no text drawn)

pipeVars == <<pc, idx, aIdx, df, successful, failed, visited, fileExists, exc,
              ran, skipped, mIdx, metricsDone, metricRaised, summary>>

cmpVars == <<table, cpc, groups, stats>>

repVars == <<rtable, rpc, report>>

effVars == <<cohens_d, effect>>

bandVars == <<p_value, bpc, band, stars>>

vars == <<pipeVars, cmpVars, repVars, effVars, bandVars>>

-----------------------------------------------------------------------------
(* Floating-point values *)

Num(n) == [k |-> "num", v |-> n]
NaN == [k |-> "nan", v |-> 0]
PosInf == [k |-> "inf", v |-> 0]
NegInf == [k |-> "-inf", v |-> 0]

\* x < c for a float x and a finite constant c (in x's unit)
Lt(x, c) == \/ x.k = "-inf"
            \/ x.k = "num" /\ x.v < c

\* abs(x)
Abs(x) == IF x.k = "num" THEN Num(IF x.v < 0 THEN -x.v ELSE x.v)
          ELSE IF x.k = "-inf" THEN PosInf ELSE x

-----------------------------------------------------------------------------
(* The main pipeline *)

experiments == <<
    [name |-> "Experiment 1: False vs True Rumor",  analyses |-> <<"false_vs_true">>],
    [name |-> "Experiment 2: Heterogeneity Effect", analyses |-> <<"heterogeneity">>],
    [name |-> "Experiment 3: Network Structure",    analyses |-> <<"network">>],
    [name |-> "Experiment 4: Verification Timing",  analyses |-> <<"summary">>],
    [name |-> "Experiment 5: Learning Rate",        analyses |-> <<"summary">>],
    [name |-> "Experiment 6: Initial Trust",        analyses |-> <<"summary">>],
    [name |-> "Experiment 7: Time Series",          analyses |-> <<"timeseries">>],
    [name |-> "Experiment 8: Full Factorial",       analyses |-> <<"summary">> ] >>

NumExperiments == Len(experiments)

\* analyze_false_vs_true's `metrics`, by display name
metrics == <<"Awareness (%)", "Mean Belief", "Strong Believers (%)", "Belief Variance">>

NumMetrics == Len(metrics)

\* The most distinct values the condition column of a loaded table has
MaxDistinct == 3

NoTable == [has |-> FALSE, distinct |-> 0, metricCols |-> {}]

\* The tables load_experiment_data can return for experiment i, as far as the
\* pipeline reads them: whether the guard column of the experiment's analysis is
\* present (has), how many distinct values it holds (distinct), and which of
\* the metric columns of analyze_false_vs_true are present (metricCols; only
\* that analysis reads them).
Tables(i) ==
    { [has |-> h, distinct |-> n, metricCols |-> m] :
        h \in BOOLEAN, n \in 1..MaxDistinct,
        m \in IF experiments[i].analyses[1] = "false_vs_true"
              THEN SUBSET (1..NumMetrics) ELSE {{}} }

exp == experiments[idx]

analysis_type == exp.analyses[aIdx]

InSeq(x, s) == \E k \in 1..Len(s) : s[k] = x

Count(x, s) == Cardinality({k \in 1..Len(s) : s[k] = x})

PipeInit ==
    /\ pc = "for"
    /\ idx = 0
    /\ aIdx = 0
    /\ df = NoTable
    /\ successful = <<>>
    /\ failed = <<>>
    /\ visited = <<>>
    /\ fileExists = "unknown"
    /\ exc = "none"
    /\ ran = FALSE
    /\ skipped = FALSE
    /\ mIdx = 0
    /\ metricsDone = {}
    /\ metricRaised = 0
    /\ summary = [printed |-> FALSE, nSuccessful |-> 0, nFailed |-> 0, complete |-> FALSE]

\* `for exp in experiments:` takes the next experiment (lines 361-365). The
\* bookkeeping of the iteration starts afresh; df stays bound to the last table.
ForNext ==
    /\ pc = "for"
    /\ idx < NumExperiments
    /\ idx' = idx + 1
    /\ visited' = Append(visited, idx + 1)
    /\ fileExists' = "unknown"
    /\ exc' = "none"
    /\ ran' = FALSE
    /\ skipped' = FALSE
    /\ metricsDone' = {}
    /\ metricRaised' = 0
    /\ pc' = "exists"
    /\ UNCHANGED <<aIdx, df, successful, failed, mIdx, summary>>

\* the loop is exhausted (line 361 -> 410)
ForExit ==
    /\ pc = "for"
    /\ idx = NumExperiments
    /\ pc' = "summary"
    /\ UNCHANGED <<idx, aIdx, df, successful, failed, visited, fileExists, exc,
                   ran, skipped, mIdx, metricsDone, metricRaised, summary>>

\* A raise inside the try block: control goes to the except clauses
Raise(e) ==
    /\ exc' = e
    /\ pc' = "except"

\* Faulty variant: a missing file ends the loop (break) instead of continuing
CheckFileBreaks ==
    /\ pc = "exists"
    /\ \E exists \in BOOLEAN :
         /\ fileExists' = (IF exists THEN "yes" ELSE "no")
         /\ IF exists
            THEN /\ pc' = "load"
                 /\ UNCHANGED failed
            ELSE /\ failed' = Append(failed, exp.name)
                 /\ pc' = "summary"
    /\ UNCHANGED <<idx, aIdx, df, successful, visited, exc, ran, skipped,
                   mIdx, metricsDone, metricRaised, summary>>

\* `if not os.path.exists(exp['file'])` (lines 370-373)
CheckFile ==
    /\ pc = "exists"
    /\ \E exists \in BOOLEAN :
         /\ fileExists' = (IF exists THEN "yes" ELSE "no")
         /\ IF exists
            THEN /\ pc' = "load"
                 /\ UNCHANGED failed
            ELSE /\ failed' = Append(failed, exp.name)
                 /\ pc' = "for"
    /\ UNCHANGED <<idx, aIdx, df, successful, visited, exc, ran, skipped,
                   mIdx, metricsDone, metricRaised, summary>>

\* `df = load_experiment_data(exp['file'])` (lines 376-377): it returns a table,
\* or pd.read_csv raises (the file vanished, or it cannot be parsed)
LoadData ==
    /\ pc = "load"
    /\ \/ /\ \E t \in Tables(idx) : df' = t
          /\ aIdx' = 1
          /\ pc' = "analyses"
          /\ UNCHANGED exc
       \/ /\ \E e \in {"FileNotFoundError", "Exception"} : Raise(e)
          /\ UNCHANGED <<df, aIdx>>
    /\ UNCHANGED <<idx, successful, failed, visited, fileExists, ran, skipped,
                   mIdx, metricsDone, metricRaised, summary>>

Dispatching == pc = "analyses" /\ aIdx <= Len(exp.analyses)

\* An analysis function other than analyze_false_vs_true is called: it returns,
\* or something in it raises (a KeyError on a column, a failure in a library)
CallAnalysis ==
    /\ ran' = TRUE
    /\ \/ /\ aIdx' = aIdx + 1
          /\ UNCHANGED <<pc, exc>>
       \/ /\ Raise("Exception")
          /\ UNCHANGED aIdx
    /\ UNCHANGED <<idx, df, successful, failed, visited, fileExists, skipped,
                   mIdx, metricsDone, metricRaised, summary>>

\* lines 381-383: analyze_false_vs_true(df) is entered
RunFalseVsTrue ==
    /\ Dispatching
    /\ analysis_type = "false_vs_true" /\ df.has
    /\ df.distinct = 2
    /\ ran' = TRUE
    /\ mIdx' = 1
    /\ pc' = "metric"
    /\ UNCHANGED <<idx, aIdx, df, successful, failed, visited, fileExists, exc,
                   skipped, metricsDone, metricRaised, summary>>

\* lines 385-387
RunHeterogeneity ==
    /\ Dispatching
    /\ analysis_type = "heterogeneity" /\ df.has
    /\ df.distinct > 1
    /\ CallAnalysis

\* lines 389-391
RunNetwork ==
    /\ Dispatching
    /\ analysis_type = "network" /\ df.has
    /\ df.distinct > 1
    /\ CallAnalysis

\* lines 393-394
RunTimeSeries ==
    /\ Dispatching
    /\ analysis_type = "timeseries" /\ df.has
    /\ CallAnalysis

\* lines 396-397
RunSummary ==
    /\ Dispatching
    /\ analysis_type = "summary"
    /\ CallAnalysis

\* Whether the if/elif chain of lines 381-397 calls an analysis function
GuardHolds ==
    \/ analysis_type = "false_vs_true" /\ df.has /\ df.distinct = 2
    \/ analysis_type = "heterogeneity" /\ df.has /\ df.distinct > 1
    \/ analysis_type = "network" /\ df.has /\ df.distinct > 1
    \/ analysis_type = "timeseries" /\ df.has
    \/ analysis_type = "summary"

\* Faulty variant: a false dispatch guard is a schema failure
SkipAnalysisRaises ==
    /\ Dispatching
    /\ ~GuardHolds
    /\ skipped' = TRUE
    /\ Raise("Exception")
    /\ UNCHANGED <<idx, aIdx, df, successful, failed, visited, fileExists, ran,
                   mIdx, metricsDone, metricRaised, summary>>

\* lines 380-397 when no branch calls anything: the loop goes on to the next
\* analysis and nothing is printed or raised
SkipAnalysis ==
    /\ Dispatching
    /\ ~GuardHolds
    /\ skipped' = TRUE
    /\ aIdx' = aIdx + 1
    /\ UNCHANGED <<pc, idx, df, successful, failed, visited, fileExists, exc,
                   ran, mIdx, metricsDone, metricRaised, summary>>

\* analyze_false_vs_true, one turn of the statistics loop (lines 58-77): the
\* metric's column is absent and the turn does nothing, or its statistics are
\* computed and printed, or computing them raises, which leaves the function
MetricStats ==
    /\ pc = "metric"
    /\ mIdx <= NumMetrics
    /\ IF mIdx \notin df.metricCols
       THEN /\ mIdx' = mIdx + 1
            /\ UNCHANGED <<pc, exc, metricsDone, metricRaised>>
       ELSE \/ /\ metricsDone' = metricsDone \cup {mIdx}
               /\ mIdx' = mIdx + 1
               /\ UNCHANGED <<pc, exc, metricRaised>>
            \/ /\ metricRaised' = mIdx
               /\ Raise("Exception")
               /\ mIdx' = 0
               /\ UNCHANGED metricsDone
    /\ UNCHANGED <<idx, aIdx, df, successful, failed, visited, fileExists, ran,
                   skipped, summary>>

\* analyze_false_vs_true after the statistics loop (lines 79-111): the figure
\* is drawn and saved and the function returns, or drawing or saving raises
MetricPlots ==
    /\ pc = "metric"
    /\ mIdx > NumMetrics
    /\ \/ /\ pc' = "analyses"
          /\ aIdx' = aIdx + 1
          /\ UNCHANGED exc
       \/ /\ Raise("Exception")
          /\ UNCHANGED aIdx
    /\ mIdx' = 0
    /\ UNCHANGED <<idx, df, successful, failed, visited, fileExists, ran, skipped,
                   metricsDone, metricRaised, summary>>

\* `successful.append(exp['name'])` (line 399)
AppendSuccessful ==
    /\ pc = "analyses"
    /\ aIdx > Len(exp.analyses)
    /\ successful' = Append(successful, exp.name)
    /\ aIdx' = 0
    /\ pc' = "for"
    /\ UNCHANGED <<idx, df, failed, visited, fileExists, exc, ran, skipped,
                   mIdx, metricsDone, metricRaised, summary>>

\* Faulty variant: the handler re-raises and the script dies
ExceptHandlerReraises ==
    /\ pc = "except"
    /\ pc' = "crashed"
    /\ UNCHANGED <<idx, aIdx, df, successful, failed, visited, fileExists, exc,
                   ran, skipped, mIdx, metricsDone, metricRaised, summary>>

\* `except FileNotFoundError` / `except Exception` (lines 401-408): both
\* clauses append the name to `failed`; the loop goes on
ExceptHandler ==
    /\ pc = "except"
    /\ failed' = Append(failed, exp.name)
    /\ aIdx' = 0
    /\ pc' = "for"
    /\ UNCHANGED <<idx, df, successful, visited, fileExists, exc, ran, skipped,
                   mIdx, metricsDone, metricRaised, summary>>

\* the final summary (lines 410-441)
FinalSummary ==
    /\ pc = "summary"
    /\ summary' = [printed |-> TRUE,
                   nSuccessful |-> Len(successful),
                   nFailed |-> Len(failed),
                   complete |-> successful # <<>>]
    /\ pc' = "done"
    /\ UNCHANGED <<idx, aIdx, df, successful, failed, visited, fileExists, exc,
                   ran, skipped, mIdx, metricsDone, metricRaised>>


-----------------------------------------------------------------------------
(* load_experiment_data's clean-up of the truth-value column, and            *)
(* analyze_false_vs_true on one table with one metric column                 *)

\* The cells a 'rumor-is-true?' column can hold when read: a boolean, a quoted
\* string, or nothing at all (an empty cell is read as NaN)
RawTruthCells == {"True", "False", "\"true\"", "\"false\"", "\"TRUE\"", "NaN"}

\* .astype(str).str.strip('"').str.lower() (line 27), on those cells
NormalizeTruth(cell) ==
    CASE cell = "True"      -> "true"
      [] cell = "False"     -> "false"
      [] cell = "\"true\""  -> "true"
      [] cell = "\"false\"" -> "false"
      [] cell = "\"TRUE\""  -> "true"
      [] cell = "NaN"       -> "nan"

\* The most rows a table has, and the largest metric value (metric values are
\* small non-negative integers, which floating point represents exactly)
MaxRows == 4
MaxMetric == 2

\* The rows load_experiment_data can return
LoadedRows ==
    { [truth |-> NormalizeTruth(c), value |-> x] : c \in RawTruthCells, x \in 0..MaxMetric }

LoadedTables == UNION { [1..n -> LoadedRows] : n \in 1..MaxRows }

\* df['rumor-is-true?'].nunique()
nunique(t) == Cardinality({ t[i].truth : i \in DOMAIN t })

\* df[df['rumor-is-true?'] == val], as the set of its row numbers
Select(t, val) == { i \in DOMAIN t : t[i].truth = val }

RECURSIVE SumOf(_, _)
SumOf(t, S) ==
    IF S = {} THEN 0
    ELSE LET i == CHOOSE j \in S : TRUE IN t[i].value + SumOf(t, S \ {i})

RECURSIVE SumSqOf(_, _)
SumSqOf(t, S) ==
    IF S = {} THEN 0
    ELSE LET i == CHOOSE j \in S : TRUE IN t[i].value * t[i].value + SumSqOf(t, S \ {i})

\* n times the sum of squared deviations from the mean: n*sum(x^2) - sum(x)^2
Deviation(t, S) == Cardinality(S) * SumSqOf(t, S) - SumOf(t, S) * SumOf(t, S)

\* floor(sqrt(n)) by bisection, lo*lo <= n < hi*hi
RECURSIVE SqrtBetween(_, _, _)
SqrtBetween(n, lo, hi) ==
    IF hi - lo <= 1 THEN lo
    ELSE LET mid == (lo + hi) \div 2
         IN IF mid * mid <= n THEN SqrtBetween(n, mid, hi) ELSE SqrtBetween(n, lo, mid)

ISqrt(n) == SqrtBetween(n, 0, n + 1)

\* Series.mean(), in hundredths (truncated): NaN for an empty series
mean(t, S) ==
    IF S = {} THEN NaN ELSE Num((100 * SumOf(t, S)) \div Cardinality(S))

\* Series.std() (ddof = 1), in hundredths (truncated): NaN below two values;
\* the variance is Deviation / (n * (n - 1))
std(t, S) ==
    LET n == Cardinality(S)
    IN IF n < 2 THEN NaN
       ELSE Num(ISqrt((10000 * Deviation(t, S)) \div (n * (n - 1))))

\* The pooled variance of line 75 as an exact fraction num/den, valid when both
\* groups have two rows or more:
\*   ((nT-1)*stdT^2 + (nF-1)*stdF^2) / (nT+nF-2), with (n-1)*std^2 = Deviation/n
PooledVar(t, T, F) ==
    LET nT == Cardinality(T)
        nF == Cardinality(F)
    IN [num |-> nF * Deviation(t, T) + nT * Deviation(t, F),
        den |-> nT * nF * (nT + nF - 2)]

\* false_mean - true_mean as an exact fraction num/den
MeanDiff(t, T, F) ==
    [num |-> SumOf(t, F) * Cardinality(T) - SumOf(t, T) * Cardinality(F),
     den |-> Cardinality(T) * Cardinality(F)]

\* pooled_std (line 75), in hundredths: NaN as soon as one std is NaN
pooled_std(t, T, F) ==
    IF Cardinality(T) < 2 \/ Cardinality(F) < 2 THEN NaN
    ELSE LET pv == PooledVar(t, T, F)
         IN Num(ISqrt((10000 * pv.num) \div pv.den))

\* diff / sqrt(variance * scale.num / scale.den), in hundredths, as numpy
\* divides: x/0 is +-inf, 0/0 is NaN, and nothing is raised
Quotient(diff, variance, scale) ==
    IF variance.num = 0
    THEN IF diff.num = 0 THEN NaN ELSE IF diff.num > 0 THEN PosInf ELSE NegInf
    ELSE LET magnitude ==
                 ISqrt((10000 * diff.num * diff.num * variance.den * scale.den)
                       \div (diff.den * diff.den * variance.num * scale.num))
         IN Num(IF diff.num < 0 THEN -magnitude ELSE magnitude)

\* cohens_d = (false_mean - true_mean) / pooled_std (line 76)
CohensD(t, T, F) ==
    IF Cardinality(T) < 2 \/ Cardinality(F) < 2 THEN NaN
    ELSE Quotient(MeanDiff(t, T, F), PooledVar(t, T, F), [num |-> 1, den |-> 1])

\* stats.ttest_ind(false, true)'s statistic (line 71): the difference of the
\* means over sqrt(pooled variance * (1/nF + 1/nT)); NaN when a group has
\* fewer than two values
TStat(t, T, F) ==
    IF Cardinality(T) < 2 \/ Cardinality(F) < 2 THEN NaN
    ELSE Quotient(MeanDiff(t, T, F), PooledVar(t, T, F),
                  [num |-> Cardinality(T) + Cardinality(F),
                   den |-> Cardinality(T) * Cardinality(F)])

\* stats.ttest_ind's p-value, in units of 0.0001: NaN for a NaN statistic, 0
\* for an infinite one; for a finite one the two-sided tail of the t
\* distribution, which the model does not compute: any of these values
PValues(t_stat) ==
    IF t_stat.k = "nan" THEN {NaN}
    ELSE IF t_stat.k \in {"inf", "-inf"} THEN {Num(0)}
    ELSE {Num(5), Num(50), Num(300), Num(5000)}

\* x <= c for a float x and a finite constant c
Le(x, c) == \/ x.k = "-inf"
            \/ x.k = "num" /\ x.v <= c

\* Faulty variant: the thresholds are inclusive (<= instead of <)
SignificanceBandInclusive(p) ==
    IF Le(p, 10) THEN "***"
    ELSE IF Le(p, 100) THEN "**"
    ELSE IF Le(p, 500) THEN "*"
    ELSE "ns"

\* line 72: '***' if p < 0.001 else '**' if p < 0.01 else '*' if p < 0.05 else 'ns'
SignificanceBand(p) ==
    IF Lt(p, 10) THEN "***"
    ELSE IF Lt(p, 100) THEN "**"
    ELSE IF Lt(p, 500) THEN "*"
    ELSE "ns"

\* lines 101-104: the text drawn above the boxes, "none" when nothing is drawn
FigureStars(p) ==
    IF Lt(p, 500)
    THEN IF Lt(p, 10) THEN "***" ELSE IF Lt(p, 100) THEN "**" ELSE "*"
    ELSE "none"

\* Faulty variant: the sign of d is kept (no abs)
EffectLabelSigned(d) ==
    IF Lt(d, 50) THEN "small"
    ELSE IF Lt(d, 80) THEN "medium"
    ELSE "large"

\* line 77: 'small' if abs(d) < 0.5 else 'medium' if abs(d) < 0.8 else 'large'
EffectLabel(d) ==
    IF Lt(Abs(d), 50) THEN "small"
    ELSE IF Lt(Abs(d), 80) THEN "medium"
    ELSE "large"

NoGroups == [true_rumors |-> {}, false_rumors |-> {}]

NoStats == [printed |-> FALSE]

CmpInit ==
    /\ table \in LoadedTables
    /\ cpc = "dispatch"
    /\ groups = NoGroups
    /\ stats = NoStats

\* main lines 381-383 with analyze_false_vs_true (lines 43-77) for one metric
\* column: the table is split on the truth value and the statistics of the
\* metric are computed and printed; no statement of it raises on a numeric
\* column, whatever the sizes of the groups
CompareFalseVsTrue ==
    /\ cpc = "dispatch"
    /\ nunique(table) = 2
    /\ LET true_rumors == Select(table, "true")
           false_rumors == Select(table, "false")
           t_stat == TStat(table, true_rumors, false_rumors)
           d == CohensD(table, true_rumors, false_rumors)
       IN /\ groups' = [true_rumors |-> true_rumors, false_rumors |-> false_rumors]
          /\ \E p \in PValues(t_stat) :
               stats' = [printed |-> TRUE,
                         raised |-> "none",
                         true_mean |-> mean(table, true_rumors),
                         true_std |-> std(table, true_rumors),
                         false_mean |-> mean(table, false_rumors),
                         false_std |-> std(table, false_rumors),
                         t_stat |-> t_stat,
                         p_value |-> p,
                         band |-> SignificanceBand(p),
                         pooled_std |-> pooled_std(table, true_rumors, false_rumors),
                         cohens_d |-> d,
                         effect |-> EffectLabel(d)]
    /\ cpc' = "done"
    /\ UNCHANGED table

\* main line 382 when the column does not hold exactly two distinct values:
\* the analysis is not called
CompareNotCalled ==
    /\ cpc = "dispatch"
    /\ nunique(table) # 2
    /\ cpc' = "done"
    /\ UNCHANGED <<table, groups, stats>>

-----------------------------------------------------------------------------
(* generate_summary_report *)

\* The columns of a BehaviorSpace table, in file order, with what each is
reportColumns == <<
    [name |-> "[run number]",             role |-> "run"],
    [name |-> "heterogeneity-level",      role |-> "condition"],
    [name |-> "network-type",             role |-> "condition"],
    [name |-> "ticks",                    role |-> "tick"],
    [name |-> "mean [belief] of turtles", role |-> "metric"] >>

ColumnNames == { reportColumns[k].name : k \in DOMAIN reportColumns }

\* The most rows a reported table has, and the most distinct values of a cell
MaxReportRows == 2
MaxValue == 2

ReportTables ==
    UNION { [ColumnNames -> [1..n -> 1..MaxValue]] : n \in 1..MaxReportRows }

\* df[col].nunique()
ColumnNunique(t, col) == Cardinality({ t[col][i] : i \in DOMAIN t[col] })

\* line 299: df[col].nunique() > 1 and col not in ['[run number]', 'ticks']
IsVaried(t, col) ==
    /\ ColumnNunique(t, col.name) > 1
    /\ col.name \notin {"[run number]", "ticks"}

\* line 299: the list comprehension over df.columns, in column order
RECURSIVE ParametersVaried(_, _)
ParametersVaried(cols, t) ==
    IF cols = <<>> THEN <<>>
    ELSE IF IsVaried(t, Head(cols))
         THEN <<Head(cols).name>> \o ParametersVaried(Tail(cols), t)
         ELSE ParametersVaried(Tail(cols), t)

\* line 300: '[' in col or 'mean' in col or 'count' in col, on the names above
IsCountedMetric(col) ==
    col.name \in {"[run number]", "mean [belief] of turtles"}

\* line 300: the length of the list comprehension
MetricsCollected(cols) ==
    Cardinality({ k \in DOMAIN cols : IsCountedMetric(cols[k]) })

RepInit ==
    /\ rtable \in ReportTables
    /\ rpc = "report"
    /\ report = [printed |-> FALSE]

\* generate_summary_report (lines 291-305)
GenerateSummaryReport ==
    /\ rpc = "report"
    /\ report' = [printed |-> TRUE,
                  total_runs |-> Len(rtable["[run number]"]),
                  parameters_varied |-> ParametersVaried(reportColumns, rtable),
                  metrics_collected |-> MetricsCollected(reportColumns)]
    /\ rpc' = "done"
    /\ UNCHANGED rtable

-----------------------------------------------------------------------------
(* The effect-size label of line 77, on a grid of values of Cohen's d *)

\* The largest |d| tried, in hundredths
MaxD == 150

DValues == { Num(k) : k \in (-MaxD)..MaxD } \cup {NaN, PosInf, NegInf}

EffInit ==
    /\ cohens_d \in DValues
    /\ effect = ""

\* line 77
PrintCohensD ==
    /\ effect = ""
    /\ effect' = EffectLabel(cohens_d)
    /\ UNCHANGED cohens_d

-----------------------------------------------------------------------------
(* The significance band of line 72 and the stars of lines 100-104, on a     *)
(* grid of p-values                                                          *)

\* p = 1, in units of 0.0001
MaxP == 10000

BandPValues == { Num(k) : k \in 0..MaxP } \cup {NaN}

BandInit ==
    /\ p_value \in BandPValues
    /\ bpc = "print"
    /\ band = ""
    /\ stars = ""

\* line 72
PrintTTest ==
    /\ bpc = "print"
    /\ band' = SignificanceBand(p_value)
    /\ bpc' = "draw"
    /\ UNCHANGED <<p_value, stars>>

\* lines 100-104: the same test on the same two series gives the same p-value
DrawStars ==
    /\ bpc = "draw"
    /\ stars' = FigureStars(p_value)
    /\ bpc' = "done"
    /\ UNCHANGED <<p_value, band>>

-----------------------------------------------------------------------------
(* Specifications: each runs one part and leaves the others at rest *)

PipeIdle ==
    /\ pc = "idle"
    /\ idx = 0
    /\ aIdx = 0
    /\ df = NoTable
    /\ successful = <<>>
    /\ failed = <<>>
    /\ visited = <<>>
    /\ fileExists = "unknown"
    /\ exc = "none"
    /\ ran = FALSE
    /\ skipped = FALSE
    /\ mIdx = 0
    /\ metricsDone = {}
    /\ metricRaised = 0
    /\ summary = [printed |-> FALSE, nSuccessful |-> 0, nFailed |-> 0, complete |-> FALSE]

CmpIdle ==
    /\ table = <<>>
    /\ cpc = "idle"
    /\ groups = NoGroups
    /\ stats = NoStats

RepIdle ==
    /\ rtable = <<>>
    /\ rpc = "idle"
    /\ report = [printed |-> FALSE]

EffIdle ==
    /\ cohens_d = NaN
    /\ effect = "idle"

BandIdle ==
    /\ p_value = NaN
    /\ bpc = "idle"
    /\ band = ""
    /\ stars = ""

Init == PipeInit /\ CmpIdle /\ RepIdle /\ EffIdle /\ BandIdle

otherThanPipe == <<cmpVars, repVars, effVars, bandVars>>

Next ==
    \/ ForNext /\ UNCHANGED otherThanPipe
    \/ ForExit /\ UNCHANGED otherThanPipe
    \/ CheckFile /\ UNCHANGED otherThanPipe
    \/ LoadData /\ UNCHANGED otherThanPipe
    \/ RunFalseVsTrue /\ UNCHANGED otherThanPipe
    \/ RunHeterogeneity /\ UNCHANGED otherThanPipe
    \/ RunNetwork /\ UNCHANGED otherThanPipe
    \/ RunTimeSeries /\ UNCHANGED otherThanPipe
    \/ RunSummary /\ UNCHANGED otherThanPipe
    \/ SkipAnalysis /\ UNCHANGED otherThanPipe
    \/ MetricStats /\ UNCHANGED otherThanPipe
    \/ MetricPlots /\ UNCHANGED otherThanPipe
    \/ AppendSuccessful /\ UNCHANGED otherThanPipe
    \/ ExceptHandler /\ UNCHANGED otherThanPipe
    \/ FinalSummary /\ UNCHANGED otherThanPipe

Spec == Init /\ [][Next]_vars

\* The script is one sequential process: a statement that can run, runs.
FairSpec == Spec /\ WF_vars(Next)

CompareInit == PipeIdle /\ CmpInit /\ RepIdle /\ EffIdle /\ BandIdle

otherThanCompare == <<pipeVars, repVars, effVars, bandVars>>

CompareNext ==
    \/ CompareFalseVsTrue /\ UNCHANGED otherThanCompare
    \/ CompareNotCalled /\ UNCHANGED otherThanCompare

CompareSpec == CompareInit /\ [][CompareNext]_vars

ReportInit == PipeIdle /\ CmpIdle /\ RepInit /\ EffIdle /\ BandIdle

ReportNext == GenerateSummaryReport /\ UNCHANGED <<pipeVars, cmpVars, effVars, bandVars>>

ReportSpec == ReportInit /\ [][ReportNext]_vars

EffectInit == PipeIdle /\ CmpIdle /\ RepIdle /\ EffInit /\ BandIdle

EffectNext == PrintCohensD /\ UNCHANGED <<pipeVars, cmpVars, repVars, bandVars>>

EffectSpec == EffectInit /\ [][EffectNext]_vars

BandSpecInit == PipeIdle /\ CmpIdle /\ RepIdle /\ EffIdle /\ BandInit

otherThanBand == <<pipeVars, cmpVars, repVars, effVars>>

BandSpecNext ==
    \/ PrintTTest /\ UNCHANGED otherThanBand
    \/ DrawStars /\ UNCHANGED otherThanBand

BandSpec == BandSpecInit /\ [][BandSpecNext]_vars

-----------------------------------------------------------------------------
(* Properties of the main pipeline (Spec, FairSpec) *)

Last(s) == s[Len(s)]

\* The loop body of experiment idx has been left
IterationOver == idx >= 1 /\ pc \in {"for", "summary", "done"}

\* C1: whatever happens to each experiment (file missing, load or analysis
\* raises, all analyses finish), the pipeline reaches the final summary, and
\* from then on every experiment's name is in exactly one of `successful` and
\* `failed`, once; the summary's two counts add up to the number of experiments.
C1_SummaryReachedAndPartition ==
    <>[](/\ pc = "done"
         /\ summary.printed
         /\ summary.nSuccessful + summary.nFailed = NumExperiments
         /\ \A i \in 1..NumExperiments :
              Count(experiments[i].name, successful)
                + Count(experiments[i].name, failed) = 1)

\* C1 witness: the summary is printed after every experiment failed
C1_AllFailedSummary ==
    /\ pc = "done"
    /\ summary.printed
    /\ ~summary.complete
    /\ successful = <<>>
    /\ Len(failed) = NumExperiments

\* C2: once an experiment whose file is missing, or in which an exception was
\* raised, has been left, its name is the last of `failed` and is not in
\* `successful`; for a missing file no analysis was called or dispatched and
\* nothing was raised; the experiments are entered in list order, and the
\* summary is reached only after all of them were entered.
C2_FailureRecordedAndLoopGoesOn ==
    /\ (IterationOver /\ (fileExists = "no" \/ exc # "none"))
          => /\ failed # <<>>
             /\ Last(failed) = exp.name
             /\ ~InSeq(exp.name, successful)
    /\ fileExists = "no" => (~ran /\ ~skipped /\ exc = "none" /\ IterationOver)
    /\ visited = [k \in 1..idx |-> k]
    /\ pc \in {"summary", "done"} => idx = NumExperiments

\* C2 witness: the first experiment failed, a later one succeeded, the last
\* one's file was missing, and all were entered
C2_FailuresThenLaterExperiments ==
    /\ pc = "done"
    /\ fileExists = "no"
    /\ InSeq(experiments[1].name, failed)
    /\ InSeq(experiments[2].name, successful)
    /\ Len(visited) = NumExperiments

\* C3 (as claimed): when the statistics of one metric raise, the other metrics
\* whose columns are present are still analysed in that experiment.
C3_OtherMetricsStillAnalysed ==
    (IterationOver /\ metricRaised # 0)
        => (df.metricCols \ {metricRaised}) \subseteq metricsDone

\* C10: an experiment whose file exists and in which nothing was raised ends
\* as the last of `successful` and not in `failed`; and when the dispatch
\* passed over its analysis (column absent, or too few distinct values),
\* nothing was raised, no analysis function was called, and it is successful.
C10_SuccessWithoutAnalysis ==
    IterationOver =>
        /\ (fileExists = "yes" /\ exc = "none")
              => /\ successful # <<>>
                 /\ Last(successful) = exp.name
                 /\ ~InSeq(exp.name, failed)
        /\ skipped
              => /\ exc = "none"
                 /\ ~ran
                 /\ successful # <<>>
                 /\ Last(successful) = exp.name

\* C10 witness: an experiment whose table lacks the column its analysis needs
\* is in `successful` though no analysis was called
C10_SuccessfulNothingRan ==
    /\ IterationOver
    /\ skipped
    /\ ~ran
    /\ ~df.has
    /\ InSeq(exp.name, successful)

-----------------------------------------------------------------------------
(* Properties of the two-group comparison (CompareSpec) *)

\* C4 (as claimed): whenever the comparison is run, the two groups are
\* disjoint and together hold every row of the table.
C4_GroupsPartitionTable ==
    (cpc = "done" /\ stats.printed)
        => /\ groups.true_rumors \cap groups.false_rumors = {}
           /\ groups.true_rumors \cup groups.false_rumors = DOMAIN table

\* C5 (as claimed): whenever the comparison is run on a table in which one of
\* the two groups has fewer than 2 rows, it fails with InsufficientDataError.
\* Stated for the tables whose rows are all true or false, where the two
\* groups do partition the table.
C5_SmallGroupRaises ==
    (/\ cpc = "done"
     /\ stats.printed
     /\ groups.true_rumors \cup groups.false_rumors = DOMAIN table
     /\ \/ Cardinality(groups.true_rumors) < 2
        \/ Cardinality(groups.false_rumors) < 2)
        => stats.raised = "InsufficientDataError"

\* C6 (as claimed): whenever the pooled standard deviation is exactly zero,
\* Cohen's d is NaN and nothing is raised.
C6_ZeroPooledStdGivesNaN ==
    (/\ cpc = "done"
     /\ stats.printed
     /\ Cardinality(groups.true_rumors) >= 2
     /\ Cardinality(groups.false_rumors) >= 2
     /\ PooledVar(table, groups.true_rumors, groups.false_rumors).num = 0)
        => /\ stats.cohens_d = NaN
           /\ stats.raised = "none"

-----------------------------------------------------------------------------
(* Properties of the summary report (ReportSpec) *)

\* C7 (as claimed): the varied-parameters listing holds exactly the condition
\* columns with more than one distinct value.
C7_ListingIsVaryingConditions ==
    rpc = "done"
        => { report.parameters_varied[k] : k \in DOMAIN report.parameters_varied }
             = { reportColumns[k].name : k \in
                   { j \in DOMAIN reportColumns :
                       /\ reportColumns[j].role = "condition"
                       /\ ColumnNunique(rtable, reportColumns[j].name) > 1 } }

-----------------------------------------------------------------------------
(* Properties of the labels (EffectSpec, BandSpec) *)

\* C8: for a finite d the label is decided by |d| alone: below 0.5 small,
\* from 0.5 and below 0.8 medium, from 0.8 large; so 0.3 is small, 0.65
\* medium, 1.2 large, 0.5 medium, 0.8 large; and -d gets the label of d.
C8_EffectLabelByMagnitude ==
    (effect # "" /\ cohens_d.k = "num") =>
        LET a == IF cohens_d.v < 0 THEN -cohens_d.v ELSE cohens_d.v
        IN /\ a < 50 => effect = "small"
           /\ (50 <= a /\ a < 80) => effect = "medium"
           /\ a >= 80 => effect = "large"
           /\ cohens_d.v = 30 => effect = "small"
           /\ cohens_d.v = 65 => effect = "medium"
           /\ cohens_d.v = 120 => effect = "large"
           /\ cohens_d.v = 50 => effect = "medium"
           /\ cohens_d.v = 80 => effect = "large"
           /\ EffectLabel(Num(-cohens_d.v)) = effect

\* C8 witness: the boundary value d = -0.8 has been labelled large
C8_BoundaryLabelled ==
    /\ cohens_d = Num(-80)
    /\ effect = "large"

\* C9: the printed band is *** below 0.001, ** from 0.001 and below 0.01,
\* * from 0.01 and below 0.05, ns from 0.05; exactly one of the four cases
\* holds for every p in [0, 1]; and for p < 0.05 the stars on the figure are
\* the printed band.
C9_BandsAndStarsAgree ==
    (bpc \in {"draw", "done"} /\ p_value.k = "num") =>
        LET p == p_value.v
        IN /\ p < 10 => band = "***"
           /\ (10 <= p /\ p < 100) => band = "**"
           /\ (100 <= p /\ p < 500) => band = "*"
           /\ p >= 500 => band = "ns"
           /\ Cardinality({ b \in {"***", "**", "*", "ns"} : b = band }) = 1
           /\ (bpc = "done" /\ p < 500) => stars = band

\* C9 witness: p = 0.01 exactly was printed as * and drawn as *
C9_BoundaryBandDrawn ==
    /\ bpc = "done"
    /\ p_value = Num(100)
    /\ band = "*"
    /\ stars = "*"

====
